---- MODULE Spec2Model ----
(***************************************************************************)
(* Model of src/secure_api_manager.py: SecureAPIManager, a local store     *)
(* that keeps one Fernet-encrypted API key on disk beside a master key.    *)
(*                                                                         *)
(* The state is the content of the files under data/:                      *)
(*   master_key_file   data/.master_key                                    *)
(*   key_file          data/api_key.encrypted (ONE file, whatever the      *)
(*                     provider argument is: line 21)                      *)
(*   meta_files[p]     data/<p>_meta.json                                  *)
(* A file is <<>> when it does not exist and <<content>> when it does.     *)
(*                                                                         *)
(* Spec runs whole calls one after another. SpecRace runs the calls of     *)
(* two independent processes one file operation at a time; procs holds     *)
(* where each process is in its call and the locals it holds.              *)
(*                                                                         *)
(* File permissions (os.chmod, lines 36-39 and 88-92) are not modelled:    *)
(* a failing chmod is swallowed by the code and changes no content.        *)
(***************************************************************************)
EXTENDS Integers, Sequences, FiniteSets, TLC

VARIABLES master_key_file, key_file, meta_files, keysMade, ivsUsed, now,
          outside, last, track, lastMut, procs

vars == <<master_key_file, key_file, meta_files, keysMade, ivsUsed, now,
          outside, last, track, lastMut, procs>>

files == <<master_key_file, key_file, meta_files>>

\* ----------------------------------------------------------------- bounds

\* Changes made to the files from outside the program that the model
\* allows (each removal of the master key makes room for one more key).
MaxOutside == 1
\* Fernet.encrypt() calls the model allows (each draws a fresh IV).
MaxIvs == 2
\* The times datetime.now() returns are 0..MaxTime.
MaxTime == 1

\* ------------------------------------------------------------ input values

Times == 0..MaxTime

Absent == <<>>

Exists(f) == f # Absent

Content(f) == f[1]

\* A character is a string naming it: "k" is ASCII, "e_acute" is U+00E9
\* (two bytes in UTF-8), "surrogate" is U+D800, which str.encode() rejects.
Secrets == { <<>>, <<"k">>, <<"e_acute">>, <<"surrogate">> }

Providers == { "google", "openai" }

\* Injected I/O failures: the open() or unlink() named raises OSError.
SaveFaults == { "none", "meta_write" }

DeleteFaults == { "none", "key_unlink", "meta_unlink" }

\* ------------------------------------------------- str.encode / bytes.decode

\* api_key.encode() (line 46): UTF-8, which raises UnicodeEncodeError on a
\* lone surrogate.
CanEncode(s) == \A i \in 1..Len(s) : s[i] # "surrogate"

\* A bug Utf8 could have: every character written as one ASCII byte.
Utf8Ascii(c) == <<107>>

Utf8(c) == IF c = "e_acute" THEN <<195, 169>> ELSE <<107>>

RECURSIVE StrEncode(_)
StrEncode(s) == IF s = <<>> THEN <<>> ELSE Utf8(Head(s)) \o StrEncode(Tail(s))

\* bytes.decode() (line 54): the inverse parse; DecodeOk is FALSE where it
\* raises UnicodeDecodeError.
RECURSIVE DecodeOk(_)
DecodeOk(b) ==
    IF b = <<>> THEN TRUE
    ELSE IF Head(b) = 107 THEN DecodeOk(Tail(b))
    ELSE IF Head(b) = 195 /\ Len(b) >= 2 /\ b[2] = 169
         THEN DecodeOk(Tail(Tail(b)))
    ELSE FALSE

RECURSIVE BytesDecode(_)
BytesDecode(b) ==
    IF b = <<>> THEN <<>>
    ELSE IF Head(b) = 107 THEN <<"k">> \o BytesDecode(Tail(b))
    ELSE <<"e_acute">> \o BytesDecode(Tail(Tail(b)))

\* ------------------------------------------------------------------ Fernet
\* cryptography.fernet.Fernet as the code uses it (lines 31, 45-46, 52-54).
\* A key file holds [valid, id]: a key Fernet.generate_key() returned has
\* valid = TRUE and a fresh id; any other content (truncated, overwritten)
\* has valid = FALSE, and Fernet(key) raises ValueError on it.
\*
\* A token is the base64 text Fernet.encrypt() returns:
\*   ct    the AES-CBC ciphertext of the data under key k with a fresh iv,
\*   mac   the HMAC over it under key k (symbolic: the pair it signs),
\*   bits  the unused low bits of the last base64 character before the
\*         padding; the encoder writes 0, the decoder discards them.
\* The token's timestamp is covered by the mac and never read (ttl=None).

GenerateKey(fresh) == [valid |-> TRUE, id |-> fresh]

GarbageKey == [valid |-> FALSE, id |-> 0]

Hmac(k, ct) == [k |-> k, ct |-> ct]

FernetEncrypt(key, iv, data) ==
    LET ct == [k |-> key.id, iv |-> iv, pt |-> data]
    IN  [ct |-> ct, mac |-> Hmac(key.id, ct), bits |-> 0]

\* 1 version byte, 8 timestamp bytes, 16 IV bytes, the PKCS7-padded
\* ciphertext in 16-byte blocks, 32 HMAC bytes.
TokenBytes(tok) == 57 + 16 * ((Len(tok.ct.pt) \div 16) + 1)

\* base64 writes 3 bytes as 4 characters: a last group of 1 byte leaves 4
\* unused bits in its second character, one of 2 bytes leaves 2.
UnusedBits(tok) ==
    CASE TokenBytes(tok) % 3 = 1 -> 4
      [] TokenBytes(tok) % 3 = 2 -> 2
      [] OTHER -> 0

\* A bug FernetVerify could have: an integrity check that is not keyed.
FernetVerifyNoKey(key, tok) == tok.mac.ct = tok.ct

\* Fernet.decrypt: base64.urlsafe_b64decode (which does not read the unused
\* bits), then the HMAC check under the given key; InvalidToken unless it
\* matches.
FernetVerify(key, tok) == tok.mac = Hmac(key.id, tok.ct)

\* A bug FernetDecrypt could have: the plaintext recovered without the
\* HMAC check.
FernetDecryptUnchecked(key, tok) == [raised |-> FALSE, data |-> tok.ct.pt]

FernetDecrypt(key, tok) ==
    IF FernetVerify(key, tok)
    THEN [raised |-> FALSE, data |-> tok.ct.pt]
    ELSE [raised |-> TRUE, data |-> <<>>]

\* -------------------------------------------------------- SecureAPIManager

\* A bug GetOrCreateMasterKey could have: the exists() check left out, a
\* key generated and written on every call.
GetOrCreateMasterKeyAlways(mkf, fresh) ==
    [key |-> GenerateKey(fresh), file |-> <<GenerateKey(fresh)>>,
     made |-> TRUE]

\* _get_or_create_master_key (lines 24-40). mkf is the master-key file,
\* fresh the id the next generate_key() returns. The result carries the
\* file as the call leaves it; made: a key was generated.
GetOrCreateMasterKey(mkf, fresh) ==
    IF Exists(mkf)
    THEN [key |-> Content(mkf), file |-> mkf, made |-> FALSE]
    ELSE [key |-> GenerateKey(fresh), file |-> <<GenerateKey(fresh)>>,
          made |-> TRUE]

\* _encrypt_api_key (lines 42-47).
\* raised: Fernet(master_key) raised ValueError or encode() raised.
EncryptApiKey(api_key, mkf, fresh, iv) ==
    LET g == GetOrCreateMasterKey(mkf, fresh)
        none == FernetEncrypt(GarbageKey, 0, <<>>)
    IN  IF ~g.key.valid \/ ~CanEncode(api_key)
        THEN [raised |-> TRUE, token |-> none, file |-> g.file,
              made |-> g.made]
        ELSE [raised |-> FALSE,
              token |-> FernetEncrypt(g.key, iv, StrEncode(api_key)),
              file |-> g.file, made |-> g.made]

\* _decrypt_api_key (lines 49-58). raised: Fernet(master_key) raised
\* ValueError outside the try; isNone: the except branch returned None.
DecryptApiKey(tok, mkf, fresh) ==
    LET g == GetOrCreateMasterKey(mkf, fresh)
        d == FernetDecrypt(g.key, tok)
    IN  IF ~g.key.valid
        THEN [raised |-> TRUE, isNone |-> TRUE, val |-> <<>>,
              file |-> g.file, made |-> g.made]
        ELSE IF d.raised \/ ~DecodeOk(d.data)
        THEN [raised |-> FALSE, isNone |-> TRUE, val |-> <<>>,
              file |-> g.file, made |-> g.made]
        ELSE [raised |-> FALSE, isNone |-> FALSE, val |-> BytesDecode(d.data),
              file |-> g.file, made |-> g.made]

Metadata(api_key, provider, t) ==
    [provider |-> provider, created_at |-> t, encrypted |-> TRUE,
     key_length |-> Len(api_key)]

\* ---- the text of the metadata file: json.dump(metadata, f, indent=2)
\* Text is a sequence of characters; "nl", "sp", "quote" and "backslash"
\* name the newline, the space, the double quote and the backslash.

Digit(n) == <<"0", "1", "2", "3", "4", "5", "6", "7", "8", "9">>[n + 1]

\* str(n) of a natural number, as json.dump writes an int.
RECURSIVE Digits(_)
Digits(n) == IF n < 10 THEN <<Digit(n)>>
             ELSE Digits(n \div 10) \o <<Digit(n % 10)>>

\* The characters of the provider names the model uses.
ProviderChars(provider) ==
    IF provider = "google" THEN <<"g", "o", "o", "g", "l", "e">>
    ELSE <<"o", "p", "e", "n", "a", "i">>

\* datetime.isoformat() of the time t: the model's times are successive
\* seconds of one day.
IsoFormat(t) ==
    <<"2", "0", "2", "6", "-", "0", "1", "-", "0", "1", "T", "0", "0", ":", "0", "0", ":", "0">>
        \o Digits(t)

\* A JSON string: json.dump escapes non-ASCII characters (ensure_ascii).
RECURSIVE JsonEscape(_)
JsonEscape(s) ==
    IF s = <<>> THEN <<>>
    ELSE (IF Head(s) = "e_acute" THEN <<"backslash", "u", "0", "0", "e", "9">>
          ELSE <<Head(s)>>) \o JsonEscape(Tail(s))

JsonString(s) == <<"quote">> \o JsonEscape(s) \o <<"quote">>

JsonMember(name, value) ==
    <<"nl", "sp", "sp">> \o JsonString(name) \o <<":", "sp">> \o value

JsonDump(md) ==
    <<"{">>
    \o JsonMember(<<"p", "r", "o", "v", "i", "d", "e", "r">>,
                  JsonString(ProviderChars(md.provider))) \o <<",">>
    \o JsonMember(<<"c", "r", "e", "a", "t", "e", "d", "_", "a", "t">>,
                  JsonString(IsoFormat(md.created_at))) \o <<",">>
    \o JsonMember(<<"e", "n", "c", "r", "y", "p", "t", "e", "d">>,
                  IF md.encrypted THEN <<"t", "r", "u", "e">>
                  ELSE <<"f", "a", "l", "s", "e">>) \o <<",">>
    \o JsonMember(<<"k", "e", "y", "_", "l", "e", "n", "g", "t", "h">>,
                  Digits(md.key_length))
    \o <<"nl", "}">>

\* Python's `s in text`.
Contains(text, s) ==
    \E i \in 1..(Len(text) - Len(s) + 1) : SubSeq(text, i, i + Len(s) - 1) = s

\* A bug SaveApiKey could have: an existing ciphertext file is kept (the
\* file opened with 'ab' or 'xb' and the error swallowed).
SaveApiKeyNoOverwrite(api_key, provider, mkf, kf, mf, fresh, iv, t, fault) ==
    LET e == EncryptApiKey(api_key, mkf, fresh, iv)
    IN  IF e.raised
        THEN [ret |-> FALSE, master |-> e.file, key |-> kf, meta |-> mf,
              made |-> e.made, encrypted |-> FALSE, wrote |-> FALSE]
        ELSE [ret |-> TRUE, master |-> e.file,
              key |-> IF Exists(kf) THEN kf ELSE <<e.token>>,
              meta |-> <<Metadata(api_key, provider, t)>>,
              made |-> e.made, encrypted |-> TRUE, wrote |-> ~Exists(kf)]

\* A bug SaveApiKey could have: the metadata write in a try of its own,
\* its failure swallowed.
SaveApiKeyMetaSwallowed(api_key, provider, mkf, kf, mf, fresh, iv, t, fault) ==
    LET e == EncryptApiKey(api_key, mkf, fresh, iv)
    IN  IF e.raised
        THEN [ret |-> FALSE, master |-> e.file, key |-> kf, meta |-> mf,
              made |-> e.made, encrypted |-> FALSE, wrote |-> FALSE]
        ELSE [ret |-> TRUE, master |-> e.file, key |-> <<e.token>>,
              meta |-> IF fault = "meta_write" THEN mf
                       ELSE <<Metadata(api_key, provider, t)>>,
              made |-> e.made, encrypted |-> TRUE, wrote |-> TRUE]

\* save_api_key (lines 60-98): the files as the call leaves them and the
\* value it returns. made: a key was generated; encrypted: Fernet.encrypt
\* ran (an IV was drawn); wrote: the ciphertext file was written.
SaveApiKey(api_key, provider, mkf, kf, mf, fresh, iv, t, fault) ==
    LET e == EncryptApiKey(api_key, mkf, fresh, iv)
    IN  IF e.raised
        THEN [ret |-> FALSE, master |-> e.file, key |-> kf, meta |-> mf,
              made |-> e.made, encrypted |-> FALSE, wrote |-> FALSE]
        ELSE IF fault = "meta_write"
        THEN [ret |-> FALSE, master |-> e.file, key |-> <<e.token>>,
              meta |-> mf, made |-> e.made, encrypted |-> TRUE,
              wrote |-> TRUE]
        ELSE [ret |-> TRUE, master |-> e.file, key |-> <<e.token>>,
              meta |-> <<Metadata(api_key, provider, t)>>,
              made |-> e.made, encrypted |-> TRUE, wrote |-> TRUE]

\* A bug GetApiKey could have: the master key loaded (and so created)
\* before the exists() check.
GetApiKeyEager(provider, mkf, kf, fresh) ==
    LET g == GetOrCreateMasterKey(mkf, fresh)
    IN  IF ~Exists(kf)
        THEN [isNone |-> TRUE, val |-> <<>>, master |-> g.file,
              made |-> g.made, found |-> FALSE]
        ELSE LET d == DecryptApiKey(Content(kf), mkf, fresh)
             IN  [isNone |-> d.isNone, val |-> d.val, master |-> d.file,
                  made |-> d.made, found |-> TRUE]

\* get_api_key (lines 100-116): both the missing file and every failure
\* return None.
GetApiKey(provider, mkf, kf, fresh) ==
    IF ~Exists(kf)
    THEN [isNone |-> TRUE, val |-> <<>>, master |-> mkf, made |-> FALSE,
          found |-> FALSE]
    ELSE LET d == DecryptApiKey(Content(kf), mkf, fresh)
         IN  [isNone |-> d.isNone, val |-> d.val, master |-> d.file,
              made |-> d.made, found |-> TRUE]

\* A bug HasApiKey could have: `return self.key_file.exists`, the bound
\* method, which is always truthy.
HasApiKeyTruthy(provider, kf) == TRUE

\* has_api_key (lines 118-120).
HasApiKey(provider, kf) == Exists(kf)

\* A bug DeleteApiKey could have: unlink() without the exists() checks,
\* which raises FileNotFoundError on a missing file.
DeleteApiKeyUnchecked(provider, kf, mf, fault) ==
    IF ~Exists(kf) \/ fault = "key_unlink"
    THEN [ret |-> FALSE, key |-> kf, meta |-> mf]
    ELSE IF ~Exists(mf) \/ fault = "meta_unlink"
    THEN [ret |-> FALSE, key |-> Absent, meta |-> mf]
    ELSE [ret |-> TRUE, key |-> Absent, meta |-> Absent]

\* A bug DeleteApiKey could have: the metadata unlink in a try of its own,
\* its failure swallowed.
DeleteApiKeyMetaSwallowed(provider, kf, mf, fault) ==
    IF Exists(kf) /\ fault = "key_unlink"
    THEN [ret |-> FALSE, key |-> kf, meta |-> mf]
    ELSE IF Exists(mf) /\ fault = "meta_unlink"
    THEN [ret |-> TRUE, key |-> Absent, meta |-> mf]
    ELSE [ret |-> TRUE, key |-> Absent, meta |-> Absent]

\* delete_api_key (lines 122-134).
DeleteApiKey(provider, kf, mf, fault) ==
    IF Exists(kf) /\ fault = "key_unlink"
    THEN [ret |-> FALSE, key |-> kf, meta |-> mf]
    ELSE IF Exists(mf) /\ fault = "meta_unlink"
    THEN [ret |-> FALSE, key |-> Absent, meta |-> mf]
    ELSE [ret |-> TRUE, key |-> Absent, meta |-> Absent]

\* ------------------------------------------------------------- the machine

\* The most recent step and what it returned:
\*   ok      the bool save/delete/has returned (for get: a string came back),
\*   isNone  get returned None, val the string it returned otherwise,
\*   found   get or delete found the ciphertext file,
\*   made    the call generated a master key,
\*   wrote   save wrote the ciphertext file.
Op(op, provider, secret, fault, ok, isNone, val, found, made, wrote) ==
    [op |-> op, provider |-> provider, secret |-> secret, fault |-> fault,
     ok |-> ok, isNone |-> isNone, val |-> val, found |-> found,
     made |-> made, wrote |-> wrote]

EnvOp(name) ==
    Op(name, "", <<>>, "none", TRUE, TRUE, <<>>, FALSE, FALSE, FALSE)

\* The most recent successful save or delete, for as long as only reads
\* (get, has) have followed it; run counts how many of the same kind for
\* the same provider succeeded in a row (1 or 2).
NoTrack == [kind |-> "none", provider |-> "", secret |-> <<>>, run |-> 0]

TrackAfter(kind, provider, secret, ok) ==
    IF ~ok THEN NoTrack
    ELSE [kind |-> kind, provider |-> provider, secret |-> secret,
          run |-> IF track.kind = kind /\ track.provider = provider
                  THEN 2 ELSE 1]

\* The independent processes of SpecRace.
Procs == { 1, 2 }

\* A process that has not called yet. pc is where it is in its call, op
\* the call; key and token are the locals master_key and encrypted_key,
\* ret the value the call returned, made: it generated a master key;
\* wk, wm: its write is the latest one to the ciphertext file, to the
\* metadata file.
IdleProc ==
    [pc |-> "idle", op |-> "none", secret |-> <<>>, key |-> GarbageKey,
     token |-> FernetEncrypt(GarbageKey, 0, <<>>), ret |-> FALSE,
     made |-> FALSE, wk |-> FALSE, wm |-> FALSE]

Init ==
    /\ master_key_file = Absent
    /\ key_file = Absent
    /\ meta_files = [p \in Providers |-> Absent]
    /\ keysMade = 0
    /\ ivsUsed = 0
    /\ now = 0
    /\ outside = 0
    /\ last = EnvOp("init")
    /\ track = NoTrack
    /\ lastMut = "none"
    /\ procs = [i \in Procs |-> IdleProc]

\* t is what datetime.now() returns: the last time read, or one later.
Save(api_key, provider, fault, t) ==
    /\ ivsUsed < MaxIvs
    /\ t \in {now, now + 1}
    /\ LET r == SaveApiKey(api_key, provider, master_key_file, key_file,
                           meta_files[provider], keysMade + 1, ivsUsed + 1,
                           t, fault)
       IN  /\ master_key_file' = r.master
           /\ key_file' = r.key
           /\ meta_files' = [meta_files EXCEPT ![provider] = r.meta]
           /\ keysMade' = IF r.made THEN keysMade + 1 ELSE keysMade
           /\ ivsUsed' = IF r.encrypted THEN ivsUsed + 1 ELSE ivsUsed
           /\ last' = Op("save", provider, api_key, fault, r.ret, TRUE, <<>>,
                         FALSE, r.made, r.wrote)
           /\ track' = TrackAfter("save", provider, api_key, r.ret)
           /\ lastMut' = IF r.ret THEN "save" ELSE lastMut
    /\ now' = t
    /\ UNCHANGED <<outside, procs>>

Get(provider) ==
    /\ LET r == GetApiKey(provider, master_key_file, key_file, keysMade + 1)
       IN  /\ master_key_file' = r.master
           /\ keysMade' = IF r.made THEN keysMade + 1 ELSE keysMade
           /\ last' = Op("get", provider, <<>>, "none", ~r.isNone, r.isNone,
                         r.val, r.found, r.made, FALSE)
    /\ UNCHANGED <<key_file, meta_files, ivsUsed, now, outside, track, lastMut,
                   procs>>

\* A bug Has could have: the check made by decrypting, which loads or
\* creates the master key.
HasByDecrypting(provider) ==
    /\ LET r == GetApiKey(provider, master_key_file, key_file, keysMade + 1)
       IN  /\ master_key_file' = r.master
           /\ keysMade' = IF r.made THEN keysMade + 1 ELSE keysMade
           /\ last' = Op("has", provider, <<>>, "none", ~r.isNone, TRUE,
                         <<>>, FALSE, FALSE, FALSE)
    /\ UNCHANGED <<key_file, meta_files, ivsUsed, now, outside, track, lastMut,
                   procs>>

Has(provider) ==
    /\ last' = Op("has", provider, <<>>, "none",
                  HasApiKey(provider, key_file), TRUE, <<>>, FALSE, FALSE,
                  FALSE)
    /\ UNCHANGED <<master_key_file, key_file, meta_files, keysMade, ivsUsed,
                   now, outside, track, lastMut, procs>>

Delete(provider, fault) ==
    /\ LET r == DeleteApiKey(provider, key_file, meta_files[provider], fault)
       IN  /\ key_file' = r.key
           /\ meta_files' = [meta_files EXCEPT ![provider] = r.meta]
           /\ last' = Op("delete", provider, <<>>, fault, r.ret, TRUE, <<>>,
                         Exists(key_file), FALSE, FALSE)
           /\ track' = TrackAfter("delete", provider, <<>>, r.ret)
           /\ lastMut' = IF r.ret THEN "delete" ELSE lastMut
    /\ UNCHANGED <<master_key_file, keysMade, ivsUsed, now, outside, procs>>

\* ---- what happens to the files from outside the program

\* The operator removes data/.master_key.
RemoveMasterKey ==
    /\ outside < MaxOutside
    /\ Exists(master_key_file)
    /\ master_key_file' = Absent
    /\ last' = EnvOp("rm_master")
    /\ track' = NoTrack
    /\ outside' = outside + 1
    /\ UNCHANGED <<key_file, meta_files, keysMade, ivsUsed, now, lastMut,
                   procs>>

\* data/.master_key is truncated or overwritten: no longer a Fernet key.
CorruptMasterKey ==
    /\ outside < MaxOutside
    /\ Exists(master_key_file)
    /\ Content(master_key_file).valid
    /\ master_key_file' = <<GarbageKey>>
    /\ last' = EnvOp("corrupt_master")
    /\ track' = NoTrack
    /\ outside' = outside + 1
    /\ UNCHANGED <<key_file, meta_files, keysMade, ivsUsed, now, lastMut,
                   procs>>

\* One byte of data/api_key.encrypted is changed in place:
\*   "ct"    a byte of the ciphertext proper: it would now decrypt to
\*           other data (here: the data with a byte "k" before it),
\*   "mac"   a byte of the HMAC,
\*   "bits"  the last base64 character before the padding, in its unused
\*           low bits only (the lowest one is flipped).
Tampered(tok, kind) ==
    CASE kind = "ct" -> [tok EXCEPT !.ct.pt = <<107>> \o tok.ct.pt]
      [] kind = "mac" -> [tok EXCEPT !.mac.k = 0]
      [] OTHER -> [tok EXCEPT !.bits = 1 - tok.bits]

TamperKinds == { "ct", "mac", "bits" }

TamperCiphertext(kind) ==
    /\ outside < MaxOutside
    /\ Exists(key_file)
    /\ kind = "bits" => UnusedBits(Content(key_file)) > 0
    /\ kind # "bits" => Content(key_file).mac = Hmac(Content(key_file).ct.k,
                                                    Content(key_file).ct)
    /\ key_file' = <<Tampered(Content(key_file), kind)>>
    /\ last' = EnvOp("tamper")
    /\ track' = NoTrack
    /\ outside' = outside + 1
    /\ UNCHANGED <<master_key_file, meta_files, keysMade, ivsUsed, now,
                   lastMut, procs>>

Next ==
    \/ \E s \in Secrets, p \in Providers, f \in SaveFaults, t \in Times :
          Save(s, p, f, t)
    \/ \E p \in Providers : Get(p)
    \/ \E p \in Providers : Has(p)
    \/ \E p \in Providers, f \in DeleteFaults : Delete(p, f)
    \/ RemoveMasterKey
    \/ CorruptMasterKey
    \/ \E k \in TamperKinds : TamperCiphertext(k)

Spec == Init /\ [][Next]_vars

\* The program used for one provider only, its files left alone.
Solo == "google"

NextSolo ==
    \/ \E s \in Secrets, f \in SaveFaults, t \in Times : Save(s, Solo, f, t)
    \/ Get(Solo)
    \/ Has(Solo)
    \/ \E f \in DeleteFaults : Delete(Solo, f)

SpecSolo == Init /\ [][NextSolo]_vars

\* Calls one after another with no I/O failure and nothing changed from
\* outside: saves of non-empty secrets that return True, deletes, reads.
SaveOk(api_key, provider, t) ==
    /\ Save(api_key, provider, "none", t)
    /\ last'.ok

NextNoFault ==
    \/ \E s \in Secrets \ { <<>> }, p \in Providers, t \in Times :
          SaveOk(s, p, t)
    \/ \E p \in Providers : Delete(p, "none")
    \/ \E p \in Providers : Get(p)
    \/ \E p \in Providers : Has(p)

SpecNoFault == Init /\ [][NextNoFault]_vars

\* ---- two independent processes, one file operation at a time
\* Each process makes one call, save_api_key(api_key, 'google') or
\* delete_api_key('google'), and runs it statement by statement; nothing
\* in the code orders the statements of one process against the other's.

RaceSecrets == { <<"k">>, <<"e_acute", "k">> }

\* No process is inside a call.
Quiescent == \A i \in Procs : procs[i].pc \in { "idle", "done" }

AllDone == \A i \in Procs : procs[i].pc = "done"

\* What a step of a call leaves alone besides the files it names.
RaceFrame == <<now, outside, last, track, lastMut>>

\* save_api_key is called (line 60).
SaveCall(i, api_key) ==
    /\ procs[i].pc = "idle"
    /\ procs' = [procs EXCEPT ![i].pc = "check", ![i].op = "save",
                              ![i].secret = api_key]
    /\ UNCHANGED <<files, keysMade, ivsUsed, RaceFrame>>

\* if self.master_key_file.exists() (line 26).
SaveCheck(i) ==
    /\ procs[i].pc = "check"
    /\ procs' = [procs EXCEPT ![i].pc = IF Exists(master_key_file)
                                        THEN "read" ELSE "generate"]
    /\ UNCHANGED <<files, keysMade, ivsUsed, RaceFrame>>

\* return f.read() (lines 27-28); nothing removes the file in between.
SaveRead(i) ==
    /\ procs[i].pc = "read"
    /\ procs' = [procs EXCEPT ![i].pc = "encrypt",
                              ![i].key = Content(master_key_file)]
    /\ UNCHANGED <<files, keysMade, ivsUsed, RaceFrame>>

\* key = Fernet.generate_key() (line 31).
SaveGenerate(i) ==
    /\ procs[i].pc = "generate"
    /\ procs' = [procs EXCEPT ![i].pc = "open_master",
                              ![i].key = GenerateKey(keysMade + 1),
                              ![i].made = TRUE]
    /\ keysMade' = keysMade + 1
    /\ UNCHANGED <<files, ivsUsed, RaceFrame>>

\* open(self.master_key_file, 'wb') (line 33): the file is created or
\* truncated, and is empty until the write reaches it.
SaveOpenMaster(i) ==
    /\ procs[i].pc = "open_master"
    /\ master_key_file' = <<GarbageKey>>
    /\ procs' = [procs EXCEPT ![i].pc = "write_master"]
    /\ UNCHANGED <<key_file, meta_files, keysMade, ivsUsed, RaceFrame>>

\* f.write(key) and the close (line 34).
SaveWriteMaster(i) ==
    /\ procs[i].pc = "write_master"
    /\ master_key_file' = <<procs[i].key>>
    /\ procs' = [procs EXCEPT ![i].pc = "encrypt"]
    /\ UNCHANGED <<key_file, meta_files, keysMade, ivsUsed, RaceFrame>>

\* Fernet(master_key).encrypt(api_key.encode()) (lines 45-46); an
\* exception goes to the except clause of save_api_key (lines 96-98).
SaveEncrypt(i) ==
    /\ procs[i].pc = "encrypt"
    /\ IF ~procs[i].key.valid \/ ~CanEncode(procs[i].secret)
       THEN /\ procs' = [procs EXCEPT ![i].pc = "done", ![i].ret = FALSE]
            /\ UNCHANGED ivsUsed
       ELSE /\ procs' = [procs EXCEPT ![i].pc = "write_key",
                            ![i].token = FernetEncrypt(procs[i].key,
                                            ivsUsed + 1,
                                            StrEncode(procs[i].secret))]
            /\ ivsUsed' = ivsUsed + 1
    /\ UNCHANGED <<files, keysMade, RaceFrame>>
\* The processes after process i ran its write (w = TRUE) or its unlink
\* (w = FALSE) of the ciphertext file and moved to pc: wk marks the
\* process whose write statement ran last.
AfterKeyFile(i, pc, w) ==
    [j \in Procs |-> IF j = i THEN [procs[j] EXCEPT !.pc = pc, !.wk = w]
                     ELSE [procs[j] EXCEPT !.wk = FALSE]]

\* The same for the metadata file; ret is what the call of i returns.
AfterMetaFile(i, w) ==
    [j \in Procs |-> IF j = i
                     THEN [procs[j] EXCEPT !.pc = "done", !.ret = TRUE,
                                           !.wm = w]
                     ELSE [procs[j] EXCEPT !.wm = FALSE]]

\* A bug SaveWriteKey could have: the file opened with 'xb' and the
\* FileExistsError swallowed, so that an existing ciphertext is kept.
SaveWriteKeyExclusive(i) ==
    /\ procs[i].pc = "write_key"
    /\ key_file' = IF Exists(key_file) THEN key_file ELSE <<procs[i].token>>
    /\ procs' = AfterKeyFile(i, "write_meta", TRUE)
    /\ UNCHANGED <<master_key_file, meta_files, keysMade, ivsUsed, RaceFrame>>

\* open(self.key_file, 'wb') and f.write(encrypted_key) (lines 80-81).
SaveWriteKey(i) ==
    /\ procs[i].pc = "write_key"
    /\ key_file' = <<procs[i].token>>
    /\ procs' = AfterKeyFile(i, "write_meta", TRUE)
    /\ UNCHANGED <<master_key_file, meta_files, keysMade, ivsUsed, RaceFrame>>

\* json.dump(metadata, f, indent=2) into google_meta.json and return True
\* (lines 84-95).
SaveWriteMeta(i) ==
    /\ procs[i].pc = "write_meta"
    /\ meta_files' = [meta_files EXCEPT
                         ![Solo] = <<Metadata(procs[i].secret, Solo, now)>>]
    /\ procs' = AfterMetaFile(i, TRUE)
    /\ UNCHANGED <<master_key_file, key_file, keysMade, ivsUsed, RaceFrame>>

\* delete_api_key is called (line 122).
DeleteCall(i) ==
    /\ procs[i].pc = "idle"
    /\ procs' = [procs EXCEPT ![i].pc = "check_key", ![i].op = "delete"]
    /\ UNCHANGED <<files, keysMade, ivsUsed, RaceFrame>>

\* if self.key_file.exists() (line 125).
DeleteCheckKey(i) ==
    /\ procs[i].pc = "check_key"
    /\ procs' = [procs EXCEPT ![i].pc = IF Exists(key_file)
                                        THEN "unlink_key" ELSE "check_meta"]
    /\ UNCHANGED <<files, keysMade, ivsUsed, RaceFrame>>

\* self.key_file.unlink() (line 126): FileNotFoundError, and so False
\* (lines 132-134), if the file has gone since the check.
DeleteUnlinkKey(i) ==
    /\ procs[i].pc = "unlink_key"
    /\ IF Exists(key_file)
       THEN /\ key_file' = Absent
            /\ procs' = AfterKeyFile(i, "check_meta", FALSE)
       ELSE /\ procs' = [procs EXCEPT ![i].pc = "done", ![i].ret = FALSE]
            /\ UNCHANGED key_file
    /\ UNCHANGED <<master_key_file, meta_files, keysMade, ivsUsed, RaceFrame>>

\* if meta_file.exists() (lines 127-128); return True (line 131) if not.
DeleteCheckMeta(i) ==
    /\ procs[i].pc = "check_meta"
    /\ procs' = IF Exists(meta_files[Solo])
                THEN [procs EXCEPT ![i].pc = "unlink_meta"]
                ELSE [procs EXCEPT ![i].pc = "done", ![i].ret = TRUE]
    /\ UNCHANGED <<files, keysMade, ivsUsed, RaceFrame>>

\* meta_file.unlink() and return True (lines 129-131).
DeleteUnlinkMeta(i) ==
    /\ procs[i].pc = "unlink_meta"
    /\ IF Exists(meta_files[Solo])
       THEN /\ meta_files' = [meta_files EXCEPT ![Solo] = Absent]
            /\ procs' = AfterMetaFile(i, FALSE)
       ELSE /\ procs' = [procs EXCEPT ![i].pc = "done", ![i].ret = FALSE]
            /\ UNCHANGED meta_files
    /\ UNCHANGED <<master_key_file, key_file, keysMade, ivsUsed, RaceFrame>>

\* A get_api_key('google') made while no process is inside a call.
GetQuiescent ==
    /\ Quiescent
    /\ Get(Solo)

NextRace ==
    \/ \E i \in Procs, s \in RaceSecrets : SaveCall(i, s)
    \/ \E i \in Procs : SaveCheck(i)
    \/ \E i \in Procs : SaveRead(i)
    \/ \E i \in Procs : SaveGenerate(i)
    \/ \E i \in Procs : SaveOpenMaster(i)
    \/ \E i \in Procs : SaveWriteMaster(i)
    \/ \E i \in Procs : SaveEncrypt(i)
    \/ \E i \in Procs : SaveWriteKey(i)
    \/ \E i \in Procs : SaveWriteMeta(i)
    \/ \E i \in Procs : DeleteCall(i)
    \/ \E i \in Procs : DeleteCheckKey(i)
    \/ \E i \in Procs : DeleteUnlinkKey(i)
    \/ \E i \in Procs : DeleteCheckMeta(i)
    \/ \E i \in Procs : DeleteUnlinkMeta(i)
    \/ GetQuiescent

SpecRace == Init /\ [][NextRace]_vars

\* ---- enrollment: setup_api_key and prompt_for_api_key (lines 136-175)
\* One process (the first) runs setup_api_key, again and again; the
\* operator's answers are the inputs. Its procs entry holds where it is
\* and, in secret, the local api_key; last records each step: for "enter"
\* the text typed and whether it passed the checks, for "replace" and
\* "confirm" whether the answer was 'y'.

Enroller == 1

\* if len(api_key) < 10 (line 151).
MinLength == 10

\* What the operator types at the key prompt: nothing, 9 characters, 10
\* characters, 10 characters of which one is not ASCII (11 bytes).
EnrollInputs ==
    { <<>>,
      [i \in 1..(MinLength - 1) |-> "k"],
      [i \in 1..MinLength |-> "k"],
      [i \in 1..MinLength |-> IF i = 1 THEN "e_acute" ELSE "k"] }

\* What the operator answers to a (y/n) question; "" is a bare Enter.
Answers == { "y", "Y", "n", "yes", "" }

\* str.lower() on those answers.
Lower(a) == IF a = "Y" THEN "y" ELSE a

EnrollOp(op, text, ok) ==
    Op(op, Solo, text, "none", ok, TRUE, <<>>, FALSE, FALSE, FALSE)

\* What a step of enrollment that touches no file leaves alone.
EnrollFrame == <<files, keysMade, ivsUsed, now, outside, track, lastMut>>

\* setup_api_key is called: if manager.has_api_key() (lines 162-166).
SetupCall ==
    /\ procs[Enroller].pc \in { "idle", "done" }
    /\ procs' = [procs EXCEPT ![Enroller].op = "setup",
                              ![Enroller].secret = <<>>,
                              ![Enroller].pc =
                                  IF HasApiKey(Solo, key_file)
                                  THEN "replace" ELSE "prompt"]
    /\ last' = EnrollOp("setup", <<>>, HasApiKey(Solo, key_file))
    /\ UNCHANGED EnrollFrame
\* A bug SetupReplace could have: `if choice == 'n'`, so that only an
\* explicit 'n' keeps the existing key.
SetupReplaceUnlessNo(choice) ==
    /\ procs[Enroller].pc = "replace"
    /\ procs' = [procs EXCEPT ![Enroller].pc =
                    IF Lower(choice) = "n" THEN "done" ELSE "prompt"]
    /\ last' = EnrollOp("replace", <<>>, Lower(choice) = "y")
    /\ UNCHANGED EnrollFrame

\* choice = input("API key already exists. Replace? (y/n): ").lower();
\* if choice != 'y': return manager (lines 167-169).
SetupReplace(choice) ==
    /\ procs[Enroller].pc = "replace"
    /\ procs' = [procs EXCEPT ![Enroller].pc =
                    IF Lower(choice) # "y" THEN "done" ELSE "prompt"]
    /\ last' = EnrollOp("replace", <<>>, Lower(choice) = "y")
    /\ UNCHANGED EnrollFrame

\* A bug PromptEnter could have: `len(api_key) < 9`, the boundary off by
\* one.
PromptEnterOffByOne(input) ==
    /\ procs[Enroller].pc = "prompt"
    /\ procs' = [procs EXCEPT ![Enroller].secret = input,
                              ![Enroller].pc =
                                  IF input = <<>> \/ Len(input) < MinLength - 1
                                  THEN "prompt" ELSE "confirm"]
    /\ last' = EnrollOp("enter", input,
                        ~(input = <<>> \/ Len(input) < MinLength - 1))
    /\ UNCHANGED EnrollFrame

\* api_key = getpass.getpass(...); `continue` if it is empty or shorter
\* than 10 characters (lines 147-153).
PromptEnter(input) ==
    /\ procs[Enroller].pc = "prompt"
    /\ procs' = [procs EXCEPT ![Enroller].secret = input,
                              ![Enroller].pc =
                                  IF input = <<>> \/ Len(input) < MinLength
                                  THEN "prompt" ELSE "confirm"]
    /\ last' = EnrollOp("enter", input,
                        ~(input = <<>> \/ Len(input) < MinLength))
    /\ UNCHANGED EnrollFrame

\* A bug PromptConfirm could have: `if confirm != 'n'`, so that a bare
\* Enter confirms.
PromptConfirmUnlessNo(answer) ==
    /\ procs[Enroller].pc = "confirm"
    /\ procs' = [procs EXCEPT ![Enroller].pc =
                    IF Lower(answer) # "n" THEN "save" ELSE "prompt"]
    /\ last' = EnrollOp("confirm", procs[Enroller].secret, Lower(answer) = "y")
    /\ UNCHANGED EnrollFrame

\* confirm = input("Confirm? (y/n): ").lower(); return api_key if it is
\* 'y', else back to the key prompt (lines 155-159).
PromptConfirm(answer) ==
    /\ procs[Enroller].pc = "confirm"
    /\ procs' = [procs EXCEPT ![Enroller].pc =
                    IF Lower(answer) = "y" THEN "save" ELSE "prompt"]
    /\ last' = EnrollOp("confirm", procs[Enroller].secret, Lower(answer) = "y")
    /\ UNCHANGED EnrollFrame

\* manager.save_api_key(api_key, 'google') with the value the prompt
\* returned, its result ignored; return manager (lines 171-175).
SetupSave(fault, t) ==
    /\ procs[Enroller].pc = "save"
    /\ ivsUsed < MaxIvs
    /\ t \in {now, now + 1}
    /\ LET api_key == procs[Enroller].secret
           r == SaveApiKey(api_key, Solo, master_key_file, key_file,
                           meta_files[Solo], keysMade + 1, ivsUsed + 1, t,
                           fault)
       IN  /\ master_key_file' = r.master
           /\ key_file' = r.key
           /\ meta_files' = [meta_files EXCEPT ![Solo] = r.meta]
           /\ keysMade' = IF r.made THEN keysMade + 1 ELSE keysMade
           /\ ivsUsed' = IF r.encrypted THEN ivsUsed + 1 ELSE ivsUsed
           /\ last' = Op("save", Solo, api_key, fault, r.ret, TRUE, <<>>,
                         FALSE, r.made, r.wrote)
           /\ track' = TrackAfter("save", Solo, api_key, r.ret)
           /\ lastMut' = IF r.ret THEN "save" ELSE lastMut
    /\ now' = t
    /\ procs' = [procs EXCEPT ![Enroller].pc = "done"]
    /\ UNCHANGED outside

NextEnroll ==
    \/ SetupCall
    \/ \E c \in Answers : SetupReplace(c)
    \/ \E s \in EnrollInputs : PromptEnter(s)
    \/ \E a \in Answers : PromptConfirm(a)
    \/ \E f \in SaveFaults, t \in Times : SetupSave(f, t)

SpecEnroll == Init /\ [][NextEnroll]_vars

\* ------------------------------------------------------------------ claims

\* The token in the ciphertext file is one Fernet.encrypt() returns under
\* the key the master-key file holds.
ProducedByEncryption(kf, mkf) ==
    /\ Exists(kf)
    /\ Exists(mkf)
    /\ Content(mkf).valid
    /\ \E iv \in 1..MaxIvs, s \in Secrets :
          /\ CanEncode(s)
          /\ Content(kf) = FernetEncrypt(Content(mkf), iv, StrEncode(s))

\* What a get returned, and what get returns when there is no ciphertext.
GetReturn(o) == <<o.isNone, o.val>>

NotFoundReturn ==
    LET r == GetApiKey("google", Absent, Absent, 1) IN <<r.isNone, r.val>>

\* A get or has for the provider of the tracked save or delete.
ReadsTracked(op, kind) ==
    /\ last.op = op
    /\ track.kind = kind
    /\ last.provider = track.provider

\* C1: a get(p) that follows a successful save(p, s) of a non-empty s, with
\* nothing but reads in between, returns exactly s.
C1_RoundTrip ==
    (ReadsTracked("get", "save") /\ track.secret # <<>>)
        => (~last.isNone /\ last.val = track.secret)

C1_Witness ==
    /\ ReadsTracked("get", "save")
    /\ track.secret = <<"e_acute">>

\* C2 (as the claim states it): after a successful save(p, s), a save or a
\* delete for another provider q leaves p's credential as it was: get(p)
\* would still return s and has(p) would still be true. (Stated for
\* non-empty secrets, so that the case does not rest on save accepting the
\* empty string.)
C2_KeyedByProvider ==
    [][\A p \in Providers :
          (/\ track.kind = "save"
           /\ track.provider = p
           /\ track.secret # <<>>
           /\ last'.op \in {"save", "delete"}
           /\ last'.provider # p
           /\ last'.op = "save" => last'.secret # <<>>)
          => LET g == GetApiKey(p, master_key_file', key_file', keysMade' + 1)
             IN  /\ ~g.isNone
                 /\ g.val = track.secret
                 /\ HasApiKey(p, key_file')]_vars

\* C3 (amended): a get that finds the ciphertext but no master-key file
\* generates a new key, fails to decrypt and returns None, the very value
\* get returns when there is no ciphertext file.
C3_KeyLossReturnsNone ==
    (last.op = "get" /\ last.found /\ last.made)
        => /\ last.isNone
           /\ GetReturn(last) = NotFoundReturn
           /\ Exists(master_key_file)
           /\ Content(master_key_file).id # Content(key_file).ct.k

\* The master key was removed after a save and the ciphertext left as the
\* save wrote it; the get has run.
C3_Witness ==
    /\ last.op = "get"
    /\ last.found
    /\ last.made
    /\ Content(key_file).bits = 0
    /\ Content(key_file).mac = Hmac(Content(key_file).ct.k, Content(key_file).ct)

\* C3 (as the claim states it): that get returns an outcome that can be
\* told from the one for a missing ciphertext file.
C3_KeyLossDistinguishable ==
    (last.op = "get" /\ last.found /\ last.made)
        => GetReturn(last) # NotFoundReturn

\* C4 (as the claim states it): a get that finds a ciphertext file whose
\* content is not what encryption under the current master key produces
\* returns None. (Stated for a non-empty stored secret, so that the case
\* does not rest on save accepting the empty string.)
C4_FailClosedOnTampering ==
    (last.op = "get" /\ last.found
        /\ Content(key_file).ct.pt # <<>>
        /\ ~ProducedByEncryption(key_file, master_key_file))
        => last.isNone

\* C5 (as the claim states it): save(p, "") does not succeed and writes
\* nothing.
C5_EmptySecretRejected ==
    (last.op = "save" /\ last.secret = <<>>)
        => (~last.ok /\ ~last.wrote /\ ~last.made)

\* C6: after two successful saves for p in a row, the second of secret b,
\* the ciphertext file is the token the second save encrypted (the latest
\* IV, the data b) and p's metadata is the second save's; a get(p) that
\* follows returns b.
C6_Overwrite ==
    (track.kind = "save" /\ track.run = 2)
        => /\ Exists(master_key_file)
           /\ key_file = <<FernetEncrypt(Content(master_key_file), ivsUsed,
                                         StrEncode(track.secret))>>
           /\ meta_files[track.provider]
                 = <<Metadata(track.secret, track.provider, now)>>
           /\ (ReadsTracked("get", "save")
                 => (~last.isNone /\ last.val = track.secret))

C6_Witness ==
    /\ ReadsTracked("get", "save")
    /\ track.run = 2
    /\ track.secret = <<"k">>

\* C7: a delete(p) none of whose unlinks fails returns True in every state
\* of the files and leaves p's ciphertext and metadata absent; a delete(p)
\* that follows a successful delete(p) returns True and changes no file.
C7_IdempotentDelete ==
    [][\A p \in Providers, f \in DeleteFaults :
          Delete(p, f)
          => /\ f = "none"
                => (last'.ok /\ key_file' = Absent /\ meta_files'[p] = Absent)
             /\ (track.kind = "delete" /\ track.provider = p)
                => (last'.ok /\ files' = files)]_vars

C7_Witness ==
    /\ last.op = "delete"
    /\ last.ok
    /\ track.kind = "delete"
    /\ track.run = 2

\* C8 (amended): on a fresh store has(p) is false; while only reads have
\* followed a successful save(p, s), has(p) is true and get(p) returns s;
\* while only reads have followed a successful delete(p), has(p) is false
\* and get(p) returns None for a missing file; and in those states the
\* ciphertext exists exactly when that last successful operation was a save.
C8_Lifecycle ==
    /\ last.op = "init" => ~HasApiKey("google", key_file)
    /\ ReadsTracked("has", "save") => last.ok
    /\ ReadsTracked("get", "save") => (~last.isNone /\ last.val = track.secret)
    /\ ReadsTracked("has", "delete") => ~last.ok
    /\ ReadsTracked("get", "delete") => (last.isNone /\ ~last.found)
    /\ track.kind # "none"
          => (HasApiKey(track.provider, key_file) <=> track.kind = "save")

C8_Witness ==
    /\ ReadsTracked("get", "delete")
    /\ lastMut = "delete"
    /\ ivsUsed > 0

\* C8 (as the claim states it), where every call is for the one provider:
\* has(p) is true exactly when the last successful save or delete was a
\* save. (Stated for non-empty secrets, as C2 is.)
C8_HasIffLastSuccessWasSave ==
    (last.op = "has" /\ (Exists(key_file) => Content(key_file).ct.pt # <<>>))
        => (last.ok <=> lastMut = "save")

\* C9: has(p) returns whether the ciphertext file exists, whatever the
\* master-key file holds, and changes no file; it generates no key.
C9_HasIsPure ==
    [][\A p \in Providers :
          Has(p) => /\ last'.ok <=> Exists(key_file)
                    /\ files' = files
                    /\ keysMade' = keysMade]_vars

\* has returned True for a ciphertext that cannot be decrypted: there is
\* no master key.
C9_Witness ==
    /\ last.op = "has"
    /\ last.ok
    /\ ~Exists(master_key_file)

\* C10 (amended): save returns True only when it wrote both the ciphertext
\* and the metadata; when the metadata write fails after the ciphertext
\* was written, the ciphertext stays written and save returns False, the
\* very value it returns when it fails before writing anything.
C10_SaveOutcome ==
    /\ (last.op = "save" /\ last.ok)
          => /\ last.wrote
             /\ key_file = <<FernetEncrypt(Content(master_key_file), ivsUsed,
                                           StrEncode(last.secret))>>
             /\ meta_files[last.provider]
                   = <<Metadata(last.secret, last.provider, now)>>
    /\ (last.op = "save" /\ last.fault = "meta_write" /\ last.wrote)
          => /\ ~last.ok
             /\ key_file = <<FernetEncrypt(Content(master_key_file), ivsUsed,
                                           StrEncode(last.secret))>>
             /\ last.ok = SaveApiKey(<<"surrogate">>, last.provider,
                                     master_key_file, key_file,
                                     meta_files[last.provider], keysMade + 1,
                                     ivsUsed + 1, now, "none").ret

\* A save whose metadata write failed after it wrote the ciphertext.
C10_Witness ==
    /\ last.op = "save"
    /\ last.fault = "meta_write"
    /\ last.wrote
    /\ ~Exists(meta_files[last.provider])

\* C10 (as the claim states it): the outcome of that save differs from the
\* outcome of a save that failed before writing anything.
C10_PartialWriteDistinct ==
    (last.op = "save" /\ last.fault = "meta_write" /\ last.wrote)
        => last.ok # SaveApiKey(<<"surrogate">>, last.provider,
                                master_key_file, key_file,
                                meta_files[last.provider], keysMade + 1,
                                ivsUsed + 1, now, "none").ret

\* C11: a delete(p) that removes the ciphertext file and then fails to
\* remove p's metadata file returns False, which is not the True a delete
\* returns; and a delete that returns True leaves both files absent. (The
\* ciphertext is unlinked first and its failure ends the call, so this is
\* the only way one file is removed and the other's removal fails.)
C11_PartialDeleteReported ==
    [][\A p \in Providers, f \in DeleteFaults :
          Delete(p, f)
          => /\ (/\ Exists(key_file) /\ ~Exists(key_file')
                 /\ Exists(meta_files[p]) /\ Exists(meta_files'[p]))
                => (~last'.ok /\ last'.ok # DeleteApiKey(p, Absent, Absent, f).ret)
             /\ (/\ Exists(meta_files[p]) /\ ~Exists(meta_files'[p])
                 /\ Exists(key_file'))
                => ~last'.ok
             /\ last'.ok
                => (~Exists(key_file') /\ ~Exists(meta_files'[p]))]_vars

\* A delete removed the ciphertext it found and failed on the metadata.
C11_Witness ==
    /\ last.op = "delete"
    /\ last.fault = "meta_unlink"
    /\ last.found
    /\ ~last.ok
    /\ ~Exists(key_file)
    /\ Exists(meta_files[last.provider])

\* C12 (as the claim states it): the text of the metadata file a
\* successful save(p, s) wrote does not contain s. (Stated for non-empty
\* secrets, so that the case does not rest on save accepting the empty
\* string.)
C12_MetadataHidesSecret ==
    (last.op = "save" /\ last.ok /\ last.secret # <<>>)
        => ~Contains(JsonDump(Content(meta_files[last.provider])),
                     last.secret)

\* A step of the program (a save, get, has or delete call), as opposed to
\* a change made to the files from outside.
StoreOps == { "save", "get", "has", "delete" }

\* C13: a save, get, has or delete that starts with the master-key file
\* present leaves it as it is and generates no key, and
\* _get_or_create_master_key afterwards still returns the key it held; a
\* call generates a key only when the file is absent, and then writes it.
C13_MasterKeyNeverRotated ==
    [][last'.op \in StoreOps
          => /\ Exists(master_key_file)
                => /\ master_key_file' = master_key_file
                   /\ keysMade' = keysMade
                   /\ GetOrCreateMasterKey(master_key_file', keysMade' + 1).key
                         = Content(master_key_file)
             /\ keysMade' # keysMade
                => /\ ~Exists(master_key_file)
                   /\ master_key_file' = <<GenerateKey(keysMade')>>]_vars

\* A second encryption ran under the one key ever generated: the save
\* found the master-key file and reused it.
C13_Witness ==
    /\ last.op = "save"
    /\ last.ok
    /\ ~last.made
    /\ keysMade = 1
    /\ ivsUsed = 2
    /\ track.run = 1
    /\ master_key_file = <<GenerateKey(1)>>

\* The ciphertext on disk was encrypted under a key that is not the one
\* the master-key file holds.
Orphaned ==
    /\ Exists(key_file)
    /\ Exists(master_key_file)
    /\ Content(key_file).ct.k # Content(master_key_file).id

\* C14: when two processes have run their calls to the end on a store
\* that had no master-key file and the ciphertext is left orphaned, both
\* calls were saves that found no master-key file and generated a key
\* each, and a get finds the ciphertext and returns None (the decryption
\* fails); a get that found the ciphertext has returned None.
C14_FirstUseRace ==
    (AllDone /\ Orphaned)
        => /\ \A i \in Procs : procs[i].op = "save" /\ procs[i].made
           /\ keysMade = 2
           /\ LET g == GetApiKey(Solo, master_key_file, key_file, keysMade + 1)
              IN  g.found /\ g.isNone /\ ~g.made
           /\ (last.op = "get" /\ last.found) => last.isNone

\* Both saves reported success, the ciphertext is orphaned and the get
\* that followed returned None.
C14_Witness ==
    /\ AllDone
    /\ Orphaned
    /\ \A i \in Procs : procs[i].op = "save" /\ procs[i].ret
    /\ last.op = "get"
    /\ last.found
    /\ last.isNone

\* One process saved, the other deleted.
SaveAndDelete ==
    \E i, j \in Procs : procs[i].op = "save" /\ procs[j].op = "delete"

\* C15: when the two calls have run to the end, in whatever order their
\* statements interleaved: a save and a delete have both returned True
\* (whichever of the two files they leave behind); after
\* two saves that returned True both files exist, and each file holds
\* what the last write to it wrote: the ciphertext file the token of the
\* process that wrote it last, the metadata file the metadata of the
\* process that wrote that file last.
C15_UnguardedRace ==
    AllDone
        => /\ SaveAndDelete => \A i \in Procs : procs[i].ret
           /\ (\A i \in Procs : procs[i].op = "save" /\ procs[i].ret)
                 => /\ \E i \in Procs : procs[i].wk
                    /\ \E i \in Procs : procs[i].wm
           /\ \A i \in Procs :
                 /\ procs[i].wk => key_file = <<procs[i].token>>
                 /\ procs[i].wm
                       => meta_files[Solo]
                            = <<Metadata(procs[i].secret, Solo, now)>>

\* A save and a delete have both returned True and exactly one of the
\* ciphertext file and the metadata file exists.
C15_Witness ==
    /\ AllDone
    /\ SaveAndDelete
    /\ \A i \in Procs : procs[i].ret
    /\ Exists(key_file) # Exists(meta_files[Solo])

\* C16: an input at the key prompt that is empty or shorter than 10
\* characters leads back to the key prompt, which takes the next input
\* (the loop counts nothing), and changes no file; an input of exactly 10
\* characters goes on to the confirmation; and the value held at the
\* confirmation, returned by the prompt or saved is never shorter than 10
\* characters.
C16_MinimumLength ==
    [][/\ \A s \in EnrollInputs :
             PromptEnter(s)
             => /\ (s = <<>> \/ Len(s) < MinLength)
                   => /\ procs'[Enroller].pc = "prompt"
                      /\ files' = files
                /\ Len(s) = MinLength
                   => /\ procs'[Enroller].pc = "confirm"
                      /\ procs'[Enroller].secret = s
       /\ procs'[Enroller].pc \in { "confirm", "save" }
             => Len(procs'[Enroller].secret) >= MinLength
       /\ last'.op = "save" => Len(last'.secret) >= MinLength]_vars

\* A 9-character input has been rejected, the flow is at the key prompt
\* again, in an enrollment that replaces an earlier key.
C16_Witness ==
    /\ last.op = "enter"
    /\ Len(last.secret) = MinLength - 1
    /\ ~last.ok
    /\ procs[Enroller].pc = "prompt"
    /\ Exists(key_file)

\* C17: save is called only as the step after a confirmation answered
\* 'y', with the value that confirmation was asked about; a confirmation
\* is asked only as the step after an input that passed the checks, about
\* that input; and any other answer leads back to the key prompt and
\* changes no file, so that the value is saved only if typed again.
C17_Confirmation ==
    [][/\ last'.op = "save"
             => (last.op = "confirm" /\ last.ok /\ last'.secret = last.secret)
       /\ last'.op = "confirm"
             => (last.op = "enter" /\ last.ok /\ last'.secret = last.secret)
       /\ (last'.op = "confirm" /\ ~last'.ok)
             => (procs'[Enroller].pc = "prompt" /\ files' = files)
       /\ (last'.op = "enter" /\ last.op = "confirm")
             => ~last.ok]_vars

\* A 10-character value was confirmed and saved: setup has returned and
\* the ciphertext on disk is that value's.
C17_Witness ==
    /\ last.op = "save"
    /\ last.ok
    /\ last.secret = [i \in 1..MinLength |-> IF i = 1 THEN "e_acute" ELSE "k"]
    /\ procs[Enroller].pc = "done"
    /\ Content(key_file).ct.pt = StrEncode(last.secret)

\* C18: setup asks whether to replace exactly when has_api_key() is true
\* at its start, and every answer but 'y' ends it there: no key prompt, no
\* save, the master-key, ciphertext and metadata files as they were.
C18_DeclineReplacement ==
    [][/\ SetupCall
             => /\ procs'[Enroller].pc = "replace" <=> HasApiKey(Solo, key_file)
                /\ files' = files
       /\ last'.op = "replace" => (last.op = "setup" /\ last.ok)
       /\ \A c \in Answers :
             (SetupReplace(c) /\ Lower(c) # "y")
             => /\ procs'[Enroller].pc = "done"
                /\ files' = files
                /\ keysMade' = keysMade
                /\ ivsUsed' = ivsUsed]_vars

\* The operator declined to replace an existing credential; setup has
\* returned.
C18_Witness ==
    /\ last.op = "replace"
    /\ ~last.ok
    /\ procs[Enroller].pc = "done"
    /\ Exists(key_file)
    /\ Exists(master_key_file)
    /\ Exists(meta_files[Solo])

\* C19 (as the claim states it): after any sequence of successful saves
\* and deletes with no I/O failure, for every provider p the ciphertext
\* the store holds for p (what has_api_key(p) tests) exists exactly when
\* p's metadata file exists.
C19_BothOrNeither ==
    \A p \in Providers : HasApiKey(p, key_file) <=> Exists(meta_files[p])

\* C20: a get(p) leaves the ciphertext file and every metadata file as
\* they are; with no ciphertext file it returns None without reading or
\* creating the master key; and it changes the master-key file only by
\* creating it with a newly generated key, which it does exactly when the
\* ciphertext file exists and the master-key file does not.
C20_GetFrame ==
    [][\A p \in Providers :
          Get(p)
          => /\ key_file' = key_file
             /\ meta_files' = meta_files
             /\ ~Exists(key_file)
                   => /\ last'.isNone
                      /\ ~last'.found
                      /\ master_key_file' = master_key_file
                      /\ keysMade' = keysMade
             /\ master_key_file' # master_key_file
                   <=> (Exists(key_file) /\ ~Exists(master_key_file))
             /\ master_key_file' # master_key_file
                   => /\ master_key_file' = <<GenerateKey(keysMade')>>
                      /\ keysMade' = keysMade + 1
                      /\ last'.made]_vars

\* A get found the ciphertext and p's metadata but no master key, and
\* created a second one.
C20_Witness ==
    /\ last.op = "get"
    /\ last.found
    /\ last.made
    /\ keysMade = 2
    /\ master_key_file = <<GenerateKey(2)>>
    /\ Exists(meta_files[last.provider])

====
